---- MODULE Spec2Model ----
(***************************************************************************)
(* Model of the audio-control capture -> buffering -> transcription        *)
(* pipeline (src-tauri/src): Orchestrator, Recorder with its worker thread *)
(* and capture callback, AudioProcessor and TranscriptionService.          *)
(*                                                                         *)
(* The specifications share the variables:                                 *)
(*   Spec      the application: Orchestrator.start/stop calls (serialised  *)
(*             by the Mutex<Orchestrator> of main.rs) running against the  *)
(*             recorder worker, the capture callback and the consumption   *)
(*             tasks, after main has initialised the engine (Boot);        *)
(*             SpecRestart, the same with more calls and fewer blocks, and *)
(*             FairSpecApp, the same with its threads and tasks scheduled  *)
(*             fairly;                                                     *)
(*   SpecBridge the application driven by the commands of the GUI, each of *)
(*             which spawns a handler that calls start or stop;            *)
(*   SpecRec   the Recorder driven directly through its public API         *)
(*             (start_recording / stop_recording in any order), and        *)
(*             FairSpecRec, the same with its threads scheduled fairly;    *)
(*   SpecProc  AudioProcessor.process as a function of its configuration,  *)
(*             its buffer and the chunk;                                   *)
(*   SpecSvc   TranscriptionService.transcribe as a function of its        *)
(*             configuration and the number of samples passed;             *)
(*   SpecPipe  the body of the consumption loop (process, then transcribe) *)
(*             fed with chunks of 4410 samples.                            *)
(*                                                                         *)
(* An element of a sequence of samples stands for svc.unit samples of the  *)
(* program; rates, durations and the thresholds of the transcription       *)
(* service are the program's own numbers.                                  *)
(***************************************************************************)
EXTENDS Naturals, Integers, Sequences, FiniteSets, TLC

VARIABLES
    is_active,        \* Orchestrator.is_active
    stop_signal,      \* Orchestrator.stop_signal
    recording_state,  \* RecorderState.recording_state
    audio_sender,     \* RecorderState.audio_sender: channel id, 0 = None
    recording_thread, \* Recorder.recording_thread: worker id, 0 = None
    workers,          \* the recorder worker threads spawned so far
    chans,            \* the audio channels created so far
    tasks,            \* the consumption tasks spawned so far
    outs,             \* the text received on each session's output channel
    buffer,           \* AudioProcessor.buffer
    cfg,              \* AudioProcessor.config
    poisoned,         \* the buffer mutex is poisoned (process panicked)
    op,               \* position of the call in progress ("idle": none)
    ret,              \* what the last Orchestrator call did
    rec_ret,          \* what the last Recorder call did
    ncalls,           \* number of API calls made so far
    nchunks,          \* number of blocks the device has delivered so far
    nsamples,         \* number of samples handed out so far (sample ids)
    last,             \* the last call of process: its inputs and outputs
    segments,         \* the segments process has returned so far, in order
    tcalls,           \* the calls of transcribe made so far, in order
    svc,              \* TranscriptionService.config
    app,              \* the application: its phase and the global engine
    lim,              \* the calls and blocks of a behaviour (its bounds)
    locks,            \* the holder of each mutex
    cmds              \* the commands issued by the GUI and their handlers

vars == <<is_active, stop_signal, recording_state, audio_sender,
          recording_thread, workers, chans, tasks, outs, buffer, cfg,
          poisoned, op, ret, rec_ret, ncalls, nchunks, nsamples, last,
          segments, tcalls, svc, app, lim, locks, cmds>>

orch_vars == <<is_active, stop_signal>>
rec_vars == <<recording_state, audio_sender, recording_thread, workers>>
proc_vars == <<buffer, cfg, poisoned, last>>
env_vars == <<app, lim>>
hist_vars == <<segments, tcalls, svc, env_vars>>

----------------------------------------------------------------------------
(* Bounds of the model *)

\* API calls (start/stop) per behaviour
MaxCalls == 3
\* blocks the device delivers per behaviour
MaxChunks == 4
\* elements per block in Spec and SpecRec
ChunkLen == 2
\* capacity of the audio channel (channel_buffer_size of the configuration)
ChannelCap == 2
\* min_samples_for_processing of the application's processor (Spec)
MinSamples == 3
\* calls of process per behaviour of SpecProc
MaxProcCalls == 3
\* longest chunk passed to process in SpecProc
MaxProcChunk == 3
\* largest min_samples_for_processing drawn in SpecProc
MaxMin == 3
\* largest max_buffer_size drawn in SpecProc
MaxMaxBuf == 4
\* API calls and blocks per behaviour of SpecRestart
RestartCalls == 5
RestartChunks == 1
\* API calls and blocks per behaviour of FairSpecApp
LiveCalls == 3
LiveChunks == 2
\* commands and blocks per behaviour of SpecBridge
BridgeCmds == 3
BridgeChunks == 1
\* calls of transcribe per behaviour of SpecSvc
MaxSvcCalls == 2
\* chunks fed to the pipeline per behaviour of SpecPipe
PipeChunks == 20
\* elements per chunk in SpecPipe: the chunk of 4410 samples
PipeChunkLen == 441

----------------------------------------------------------------------------
(* Program constants *)

\* orchestrator.rs:130  if consecutive_failures > 5
MaxFailures == 5
\* main.rs:86  max_buffer_size = min_transcription_samples * 10
BufferFactor == 10

None == 0

\* the samples nsamples+1 .. nsamples+n, in order
FreshChunk(from, n) == [i \in 1..n |-> from + i]

----------------------------------------------------------------------------
(* AudioProcessor (audio/processor.rs) *)

\* ProcessorConfig
ProcessorConfig(min, max, sr, tr, sc, tc) ==
    [min_samples_for_processing |-> min, max_buffer_size |-> max,
     source_sample_rate |-> sr, target_sample_rate |-> tr,
     source_channels |-> sc, target_channels |-> tc]

\* vad_rs::audio_resample(samples, source_rate, target_rate, channels):
\* rate conversion over interleaved frames; the output has
\* frames * target_rate / source_rate frames of the same channel count, each
\* taken at the corresponding source position.
resample(samples, c) ==
    LET ch == c.source_channels
        frames == Len(samples) \div ch
        outFrames == (frames * c.target_sample_rate) \div c.source_sample_rate
        srcFrame(f) == ((f - 1) * c.source_sample_rate) \div c.target_sample_rate
    IN  [i \in 1..(outFrames * ch) |->
            samples[srcFrame(((i - 1) \div ch) + 1) * ch + ((i - 1) % ch) + 1]]

\* processor.rs:70  the buffer is too large
too_large(buf, c) == Len(buf) > c.max_buffer_size

\* processor.rs:72  start_idx = len - min_samples_for_processing on usize:
\* the subtraction underflows (a panic in a debug build; a wrapped index that
\* copy_within rejects with a panic in a release build)
trim_panics(buf, c) == Len(buf) < c.min_samples_for_processing

\* processor.rs:72-74  keep only the most recent min_samples_for_processing
trim(buf, c) ==
    SubSeq(buf, Len(buf) - c.min_samples_for_processing + 1, Len(buf))

appended_front(b, chunk) == chunk \o b

\* processor.rs:78  buffer_guard.extend_from_slice(audio_chunk)
appended(b, chunk) == b \o chunk

enough_never(b, c) == FALSE

enough_strict(b, c) == Len(b) > c.min_samples_for_processing

enough_resampled(b, c) ==
    Len(b) * c.target_sample_rate
        >= c.min_samples_for_processing * c.source_sample_rate

\* processor.rs:81  enough samples to process
enough(b, c) == Len(b) >= c.min_samples_for_processing

cleared_keep(b) == b

\* processor.rs:89  buffer_guard.clear()
cleared(b) == <<>>

needs_resample_rate_only(c) == c.source_sample_rate # c.target_sample_rate

\* processor.rs:92-93  resample if necessary
needs_resample(c) ==
    \/ c.source_sample_rate # c.target_sample_rate
    \/ c.source_channels # c.target_channels

\* AudioProcessor::process: the buffer after the call, whether a segment is
\* returned (Some), the accumulated samples (samples_to_process) and the
\* returned segment
process(buf, chunk, c) ==
    IF too_large(buf, c) /\ trim_panics(buf, c)
    THEN [panicked |-> TRUE, buffer |-> buf, emitted |-> FALSE,
          raw |-> <<>>, out |-> <<>>, trimmed |-> TRUE, resampled |-> FALSE]
    ELSE LET b1 == IF too_large(buf, c) THEN trim(buf, c) ELSE buf
             b2 == appended(b1, chunk)
         IN  IF ~enough(b2, c)
             THEN [panicked |-> FALSE, buffer |-> b2, emitted |-> FALSE,
                   raw |-> <<>>, out |-> <<>>,
                   trimmed |-> too_large(buf, c), resampled |-> FALSE]
             ELSE [panicked |-> FALSE, buffer |-> cleared(b2),
                   emitted |-> TRUE, raw |-> b2,
                   out |-> IF needs_resample(c) THEN resample(b2, c) ELSE b2,
                   trimmed |-> too_large(buf, c),
                   resampled |-> needs_resample(c)]

NoCall ==
    [called |-> FALSE, before |-> <<>>, chunk |-> <<>>, panicked |-> FALSE,
     emitted |-> FALSE, raw |-> <<>>, out |-> <<>>, trimmed |-> FALSE,
     resampled |-> FALSE]

CallRecord(buf, chunk, r) ==
    [called |-> TRUE, before |-> buf, chunk |-> chunk,
     panicked |-> r.panicked, emitted |-> r.emitted, raw |-> r.raw,
     out |-> r.out, trimmed |-> r.trimmed, resampled |-> r.resampled]

----------------------------------------------------------------------------
(* TranscriptionService (transcription/service.rs, transcription/whisper.rs) *)

\* whisper.rs:9  MIN_AUDIO_DURATION_SECONDS = 1.0
MIN_AUDIO_DURATION_SECONDS == 1
\* whisper.rs:10  SAMPLE_RATE = 16_000
SAMPLE_RATE == 16000

\* In Spec, SpecRec and SpecProc one element of a sequence of samples stands
\* for AppUnit samples of the program.
AppUnit == SAMPLE_RATE

\* The application's processor configuration (config.rs:108-131,
\* main.rs:80-87) counted in elements: the device delivers 3 samples where
\* the engine expects 1 (44100 Hz -> 16000 Hz, mono), max_buffer_size is ten
\* times min_samples_for_processing.
AppProcessorConfig ==
    ProcessorConfig(MinSamples, MinSamples * BufferFactor, 3, 1, 1, 1)

\* TranscriptionConfig; min_duration_seconds (an f32) is the fraction
\* num / den, sample_rate is in samples per second. unit is not a field of
\* the program's record: it is the number of samples one element of a
\* sequence stands for in the specification at hand.
TranscriptionConfig(num, den, rate, unit) ==
    [min_duration_num |-> num, min_duration_den |-> den,
     sample_rate |-> rate, unit |-> unit]

\* The application's TranscriptionConfig (main.rs:97-102):
\* min_duration_seconds = 1.0, sample_rate = whisper_sample_rate = 16000
AppTranscriptionConfig == TranscriptionConfig(1, 1, 16000, AppUnit)

\* audio_data.len()
sample_count(samples, tc) == Len(samples) * tc.unit

\* service.rs:71  (min_duration_seconds * sample_rate as f32) as usize: the
\* cast truncates
min_samples(tc) ==
    (tc.min_duration_num * tc.sample_rate) \div tc.min_duration_den

too_short_never(samples, tc) == FALSE

\* service.rs:72  audio_data.len() < min_samples
too_short(samples, tc) == sample_count(samples, tc) < min_samples(tc)

\* whisper.rs:81-85  the engine wrapper's own length gate
whisper_too_short(samples, tc) ==
    sample_count(samples, tc) < MIN_AUDIO_DURATION_SECONDS * SAMPLE_RATE

\* whisper.rs:97-103  the global WHISPER_STATE holds a state
engine_ready == app.engine = "ready"

\* whisper::transcribe: its own length gate, the global state, then the
\* model, which returns a text (engine_ok) or fails
whisper_transcribe(samples, tc, engine_ok) ==
    IF whisper_too_short(samples, tc)
    THEN FALSE
    ELSE engine_ready /\ engine_ok

\* TranscriptionService::transcribe: TRUE when a text is returned
transcribe(samples, tc, engine_ok) ==
    IF too_short(samples, tc)
    THEN FALSE
    ELSE whisper_transcribe(samples, tc, engine_ok)

\* an entry of segments: the task that called process (0: a direct call) and
\* the segment before resampling
Segment(t, raw) == [task |-> t, raw |-> raw]

\* an entry of tcalls: the caller, the position in segments of the segment
\* passed (0: a direct call), the number of samples passed, whether
\* whisper::transcribe was called, whether the model (state.full,
\* whisper.rs:131) ran, and whether a text was returned
TranscribeCall(t, seg, samples, tc, engine_ok) ==
    [task |-> t, seg |-> seg, count |-> sample_count(samples, tc),
     whisper_called |-> ~too_short(samples, tc),
     engine_ready |-> engine_ready,
     engine_run |-> /\ ~too_short(samples, tc)
                    /\ ~whisper_too_short(samples, tc)
                    /\ engine_ready,
     text |-> transcribe(samples, tc, engine_ok)]

----------------------------------------------------------------------------
(* The mutexes: stop_signal, processor and transcription_service of the      *)
(* Orchestrator (orchestrator.rs:16-26) and the RecorderState of the         *)
(* Recorder (recorder.rs:46). A step of the model runs from one point       *)
(* where its thread or task can be suspended to the next.                    *)

LockNames == {"stop_signal", "processor", "transcription", "state"}

Free == [kind |-> "none", id |-> 0]
Caller == [kind |-> "call", id |-> 0]
WorkerId(w) == [kind |-> "worker", id |-> w]
TaskId(t) == [kind |-> "task", id |-> t]

AllFree == [l \in LockNames |-> Free]

\* Mutex::lock returns once the mutex is free
CanLock(names) == \A l \in names : locks[l] = Free

\* the mutexes after who has locked names and kept the guards
held(names, who) == [l \in LockNames |-> IF l \in names THEN who ELSE locks[l]]

task_guards_kept(names, who) == held(names, who)

\* the consumption task: the guard of orchestrator.rs:97 is a temporary of
\* the while condition, those of 102 and 108 are temporaries of the match
\* scrutinees and are dropped at the end of the match, line 125; none is
\* alive at the recv of line 99 or at the sleep of line 135
task_guards(names, who) == locks

\* Orchestrator::start and stop: the guard of stop_signal lives in a block
\* of its own, orchestrator.rs:66-69 and 157-160
call_guards(names, who) == locks

\* the Recorder, its worker and the callback: the guard of the state lives
\* in a block (recorder.rs:85-91, 94-98, 150-159, 240-247, 258-262) or in
\* should_stop (recorder.rs:162-165)
rec_guards(names, who) == locks

----------------------------------------------------------------------------
(* Recorder (audio/recorder.rs) *)

NewWorker == [pc |-> "setup", sender |-> None, cb |-> "idle", failed |-> FALSE]

should_stop_inactive(state) == state = "Inactive"

\* recorder.rs:162-165  should_stop
should_stop(state) == state # "Active"

start_recording_unchecked(c) ==
    /\ recording_state' = "Active"
    /\ audio_sender' = c
    /\ workers' = Append(workers, NewWorker)
    /\ recording_thread' = Len(workers) + 1
    /\ rec_ret' = "started"

\* Recorder::start_recording(audio_sender = c)
start_recording(c) ==
    IF recording_state = "Active"
    THEN /\ rec_ret' = "already_active"
         /\ UNCHANGED rec_vars
    ELSE /\ recording_state' = "Active"
         /\ audio_sender' = c
         /\ workers' = Append(workers, NewWorker)
         /\ recording_thread' = Len(workers) + 1
         /\ rec_ret' = "started"

stop_request_noop ==
    /\ rec_ret' = "not_active"
    /\ op' = "idle"
    /\ UNCHANGED rec_vars

stop_request_unchecked ==
    /\ recording_state' = "StopRequested"
    /\ op' = "join"
    /\ rec_ret' = "stopping"
    /\ UNCHANGED <<audio_sender, recording_thread, workers>>

\* Recorder::stop_recording, recorder.rs:240-247: the check and StopRequested
stop_request ==
    IF recording_state # "Active"
    THEN /\ rec_ret' = "not_active"
         /\ op' = "idle"
         /\ UNCHANGED rec_vars
    ELSE /\ recording_state' = "StopRequested"
         /\ op' = "join"
         /\ rec_ret' = "stopping"
         /\ UNCHANGED <<audio_sender, recording_thread, workers>>

joined_detached(w) == workers[w].pc # "setup"

joined_nowait(w) == TRUE

\* recorder.rs:254  thread.join() returns once the worker has terminated
joined(w) == workers[w].pc = "done"

\* recorder.rs:252-255  take the handle and join the worker
RecStopJoin ==
    /\ op = "join"
    /\ recording_thread # None => joined(recording_thread)
    /\ recording_thread' = None
    /\ op' = "reset"
    /\ UNCHANGED <<hist_vars, is_active, stop_signal, recording_state, audio_sender,
                   workers, chans, tasks, outs, buffer, cfg, poisoned, ret,
                   rec_ret, ncalls, nchunks, nsamples, last>>
    /\ UNCHANGED locks
    /\ UNCHANGED cmds

\* recorder.rs:257-264  reset the state; stop_recording returns
RecStopReset ==
    /\ op = "reset"
    /\ recording_state' = "Inactive"
    /\ audio_sender' = None
    /\ rec_ret' = "stopped"
    /\ op' = "idle"
    /\ UNCHANGED <<hist_vars, is_active, stop_signal, recording_thread, workers, chans,
                   tasks, outs, buffer, cfg, poisoned, ret, ncalls, nchunks,
                   nsamples, last>>
    /\ CanLock({"state"})
    /\ locks' = rec_guards({"state"}, Caller)
    /\ UNCHANGED cmds

worker_unchanged ==
    UNCHANGED <<hist_vars, is_active, stop_signal, recording_state, audio_sender,
                recording_thread, chans, tasks, outs, buffer, cfg, poisoned,
                op, ret, rec_ret, ncalls, nchunks, nsamples, last>>

\* record_audio_thread, recorder.rs:123-147: default input device and its
\* default configuration; either may be unavailable
WorkerSetup(w) ==
    /\ workers[w].pc = "setup"
    /\ \E ok \in BOOLEAN :
          workers' = [workers EXCEPT ![w].pc = IF ok THEN "sender" ELSE "done",
                                     ![w].failed = ~ok]
    /\ worker_unchanged
    /\ UNCHANGED locks
    /\ UNCHANGED cmds

\* recorder.rs:149-159  clone the sender out of the shared state
WorkerGetSender(w) ==
    /\ workers[w].pc = "sender"
    /\ workers' = IF audio_sender # None
                  THEN [workers EXCEPT ![w].pc = "build",
                                       ![w].sender = audio_sender]
                  ELSE [workers EXCEPT ![w].pc = "done", ![w].failed = TRUE]
    /\ worker_unchanged
    /\ CanLock({"state"})
    /\ locks' = rec_guards({"state"}, WorkerId(w))
    /\ UNCHANGED cmds

\* recorder.rs:178-225  sample format, build_input_stream and play; on a
\* failure the thread returns and its sender clone is dropped
WorkerBuild(w) ==
    /\ workers[w].pc = "build"
    /\ \E ok \in BOOLEAN :
          workers' = IF ok
                     THEN [workers EXCEPT ![w].pc = "run"]
                     ELSE [workers EXCEPT ![w].pc = "done",
                                          ![w].sender = None,
                                          ![w].failed = TRUE]
    /\ worker_unchanged
    /\ UNCHANGED locks
    /\ UNCHANGED cmds

\* recorder.rs:227-235  the poll loop ends once should_stop holds; the stream
\* (with the callback and its sender clone) is dropped when the thread ends,
\* after a callback in progress has returned
WorkerExit(w) ==
    /\ workers[w].pc = "run"
    /\ workers[w].cb = "idle"
    /\ should_stop(recording_state)
    /\ workers' = [workers EXCEPT ![w].pc = "done", ![w].sender = None]
    /\ worker_unchanged
    /\ CanLock({"state"})
    /\ locks' = rec_guards({"state"}, WorkerId(w))
    /\ UNCHANGED cmds

\* data_fn, recorder.rs:182-186: the device delivers a block; it is dropped
\* when should_stop holds
DataFnCheck(w) ==
    /\ workers[w].pc = "run"
    /\ workers[w].cb = "idle"
    /\ nchunks < lim.chunks
    /\ nchunks' = nchunks + 1
    /\ workers' = IF should_stop(recording_state)
                  THEN workers
                  ELSE [workers EXCEPT ![w].cb = "send"]
    /\ UNCHANGED <<hist_vars, is_active, stop_signal, recording_state, audio_sender,
                   recording_thread, chans, tasks, outs, buffer, cfg,
                   poisoned, op, ret, rec_ret, ncalls, nsamples, last>>
    /\ CanLock({"state"})
    /\ locks' = rec_guards({"state"}, WorkerId(w))
    /\ UNCHANGED cmds

try_send_unbounded(ch, chunk) ==
    IF ~ch.rx
    THEN ch
    ELSE [ch EXCEPT !.q = Append(ch.q, chunk),
                    !.sent = Append(ch.sent, chunk)]

\* tokio mpsc try_send: Closed when the receiver is gone, Full at capacity
try_send(ch, chunk) ==
    IF ~ch.rx \/ Len(ch.q) >= ChannelCap
    THEN ch
    ELSE [ch EXCEPT !.q = Append(ch.q, chunk),
                    !.sent = Append(ch.sent, chunk)]

\* data_fn, recorder.rs:188-201: copy the block and try_send it
DataFnSend(w) ==
    /\ workers[w].cb = "send"
    /\ LET c == workers[w].sender
       IN  chans' = [chans EXCEPT ![c] =
                        try_send(chans[c], FreshChunk(nsamples, ChunkLen))]
    /\ nsamples' = nsamples + ChunkLen
    /\ workers' = [workers EXCEPT ![w].cb = "idle"]
    /\ UNCHANGED <<hist_vars, is_active, stop_signal, recording_state, audio_sender,
                   recording_thread, tasks, outs, buffer, cfg, poisoned, op,
                   ret, rec_ret, ncalls, nchunks, last>>
    /\ UNCHANGED locks
    /\ UNCHANGED cmds

----------------------------------------------------------------------------
(* Orchestrator (orchestrator.rs) *)

\* a channel: the queued chunks, whether its Receiver is alive, and (history)
\* the chunks enqueued so far
NewChannel == [q |-> <<>>, rx |-> TRUE, sent |-> <<>>]

\* a consumption task: its position, its Receiver, consecutive_failures, and
\* (history) the chunks it has passed to process and how many of them after
\* the stop of its session had returned
NewTask(c) ==
    [pc |-> "check", rx |-> c, failures |-> 0, seen |-> <<>>, late |-> 0]

HasSender_worker_only(c) == \E w \in 1..Len(workers) : workers[w].sender = c

HasSender_always(c) == TRUE

HasSender_never(c) == FALSE

\* a Sender of channel c is alive: the one stored in the recorder state or a
\* worker's clone
HasSender(c) ==
    \/ audio_sender = c
    \/ \E w \in 1..Len(workers) : workers[w].sender = c

\* the Receiver of the task's channel is dropped with the task's future
DropReceiver(c) == [chans EXCEPT ![c].q = <<>>, ![c].rx = FALSE]

OrchStart_noreset ==
    /\ op = "idle"
    /\ app.phase = "running"
    /\ ncalls < lim.calls
    /\ ncalls' = ncalls + 1
    /\ IF is_active
       THEN /\ ret' = "start_noop"
            /\ UNCHANGED <<is_active, stop_signal, op>>
       ELSE /\ is_active' = TRUE
            /\ op' = "start_session"
            /\ ret' = "start"
            /\ UNCHANGED stop_signal
    /\ UNCHANGED <<hist_vars, rec_vars, chans, tasks, outs, proc_vars, rec_ret, nchunks,
                   nsamples>>
    /\ UNCHANGED locks

OrchStart_unchecked ==
    /\ op = "idle"
    /\ app.phase = "running"
    /\ ncalls < lim.calls
    /\ ncalls' = ncalls + 1
    /\ is_active' = TRUE
    /\ stop_signal' = FALSE
    /\ op' = "start_session"
    /\ ret' = "start"
    /\ UNCHANGED <<hist_vars, rec_vars, chans, tasks, outs, proc_vars, rec_ret, nchunks,
                   nsamples>>
    /\ CanLock({"stop_signal"})
    /\ locks' = call_guards({"stop_signal"}, Caller)

\* Orchestrator::start, orchestrator.rs:49-69: the is_active check, then
\* is_active = true and stop_signal = false
OrchStart ==
    /\ op = "idle"
    /\ app.phase = "running"
    /\ ncalls < lim.calls
    /\ ncalls' = ncalls + 1
    /\ IF is_active
       THEN /\ ret' = "start_noop"
            /\ UNCHANGED <<is_active, stop_signal, op>>
       ELSE /\ is_active' = TRUE
            /\ stop_signal' = FALSE
            /\ op' = "start_session"
            /\ ret' = "start"
    /\ UNCHANGED <<hist_vars, rec_vars, chans, tasks, outs, proc_vars, rec_ret, nchunks,
                   nsamples>>
    /\ CanLock(IF is_active THEN {} ELSE {"stop_signal"})
    /\ locks' = call_guards(IF is_active THEN {} ELSE {"stop_signal"}, Caller)

\* Orchestrator::start, orchestrator.rs:71-143: the new channel, the recorder
\* started with its sender, the consumption task spawned with its receiver
OrchStartSession ==
    /\ op = "start_session"
    /\ chans' = Append(chans, NewChannel)
    /\ start_recording(Len(chans) + 1)
    /\ tasks' = Append(tasks, NewTask(Len(chans) + 1))
    /\ outs' = Append(outs, <<>>)
    /\ op' = "idle"
    /\ UNCHANGED <<hist_vars, orch_vars, proc_vars, ret, ncalls, nchunks, nsamples>>
    /\ CanLock({"state"})
    /\ locks' = rec_guards({"state"}, Caller)
    /\ UNCHANGED cmds

OrchStop_nosignal ==
    /\ op = "idle"
    /\ app.phase = "running"
    /\ ncalls < lim.calls
    /\ ncalls' = ncalls + 1
    /\ IF ~is_active
       THEN /\ ret' = "stop_noop"
            /\ UNCHANGED <<is_active, stop_signal, op>>
       ELSE /\ is_active' = FALSE
            /\ op' = "stop_rec"
            /\ ret' = "stop"
            /\ UNCHANGED stop_signal
    /\ UNCHANGED <<hist_vars, rec_vars, chans, tasks, outs, proc_vars, rec_ret, nchunks,
                   nsamples>>
    /\ UNCHANGED locks

OrchStop_unchecked ==
    /\ op = "idle"
    /\ app.phase = "running"
    /\ ncalls < lim.calls
    /\ ncalls' = ncalls + 1
    /\ stop_signal' = TRUE
    /\ is_active' = FALSE
    /\ op' = "stop_rec"
    /\ ret' = "stop"
    /\ UNCHANGED <<hist_vars, rec_vars, chans, tasks, outs, proc_vars, rec_ret, nchunks,
                   nsamples>>
    /\ CanLock({"stop_signal"})
    /\ locks' = call_guards({"stop_signal"}, Caller)

\* Orchestrator::stop, orchestrator.rs:146-166: the is_active check, then
\* stop_signal = true and is_active = false
OrchStop ==
    /\ op = "idle"
    /\ app.phase = "running"
    /\ ncalls < lim.calls
    /\ ncalls' = ncalls + 1
    /\ IF ~is_active
       THEN /\ ret' = "stop_noop"
            /\ UNCHANGED <<is_active, stop_signal, op>>
       ELSE /\ stop_signal' = TRUE
            /\ is_active' = FALSE
            /\ op' = "stop_rec"
            /\ ret' = "stop"
    /\ UNCHANGED <<hist_vars, rec_vars, chans, tasks, outs, proc_vars, rec_ret, nchunks,
                   nsamples>>
    /\ CanLock(IF is_active THEN {"stop_signal"} ELSE {})
    /\ locks' = call_guards(IF is_active THEN {"stop_signal"} ELSE {}, Caller)

\* Orchestrator::stop, orchestrator.rs:168-172: recorder.stop_recording()
OrchStopRec ==
    /\ op = "stop_rec"
    /\ stop_request
    /\ UNCHANGED <<hist_vars, orch_vars, chans, tasks, outs, proc_vars, ret, ncalls,
                   nchunks, nsamples>>
    /\ CanLock({"state"})
    /\ locks' = rec_guards({"state"}, Caller)
    /\ UNCHANGED cmds

forwarded_always(call) == TRUE

\* orchestrator.rs:108-114  Some(text) => transcribe_channel_clone.send(text)
forwarded(call) == call.text

budget_exceeded_early(f) == f >= MaxFailures

\* orchestrator.rs:130  if consecutive_failures > 5
budget_exceeded(f) == f > MaxFailures

recv_newest(q) == q[Len(q)]

\* orchestrator.rs:99  audio_receiver.recv(): the oldest queued chunk
recv(q) == Head(q)

task_unchanged ==
    UNCHANGED <<svc, env_vars, orch_vars, rec_vars, op, ret, rec_ret, ncalls, nchunks,
                nsamples, cfg, last>>

\* the stop of the session of task t has returned: a later session exists or
\* is being started, or the orchestrator is inactive and no call is running
SessionStopped(t) ==
    \/ t < Len(tasks)
    \/ op = "start_session"
    \/ ~is_active /\ op = "idle"

\* the consumption loop, orchestrator.rs:97: while !*stop_signal
TaskCheck(t) ==
    /\ tasks[t].pc = "check"
    /\ IF stop_signal
       THEN /\ tasks' = [tasks EXCEPT ![t].pc = "done"]
            /\ chans' = DropReceiver(tasks[t].rx)
       ELSE /\ tasks' = [tasks EXCEPT ![t].pc = "recv"]
            /\ UNCHANGED chans
    /\ UNCHANGED <<segments, tcalls, outs, buffer, poisoned>>
    /\ task_unchanged
    /\ CanLock({"stop_signal"})
    /\ locks' = task_guards({"stop_signal"}, TaskId(t))
    /\ UNCHANGED cmds

\* orchestrator.rs:99-126: a chunk is received, processed, and the segment,
\* if any, transcribed and its text sent on the session's output channel
TaskChunk(t) ==
    /\ tasks[t].pc = "recv"
    /\ Len(chans[tasks[t].rx].q) > 0
    /\ LET c == tasks[t].rx
           chunk == recv(chans[c].q)
           r == process(buffer, chunk, cfg)
       IN  IF poisoned \/ r.panicked
           THEN /\ poisoned' = TRUE
                /\ tasks' = [tasks EXCEPT ![t].pc = "done"]
                /\ chans' = DropReceiver(c)
                /\ UNCHANGED <<buffer, outs, segments, tcalls>>
           ELSE /\ chans' = [chans EXCEPT ![c].q = Tail(chans[c].q)]
                /\ buffer' = r.buffer
                /\ tasks' = [tasks EXCEPT
                                ![t].pc = "check",
                                ![t].failures =
                                    IF r.emitted THEN 0 ELSE tasks[t].failures,
                                ![t].seen = Append(tasks[t].seen, chunk),
                                ![t].late =
                                    IF SessionStopped(t)
                                    THEN tasks[t].late + 1
                                    ELSE tasks[t].late]
                /\ segments' = IF r.emitted
                               THEN Append(segments, Segment(t, r.raw))
                               ELSE segments
                /\ IF r.emitted
                   THEN \E engine_ok \in BOOLEAN :
                          LET call == TranscribeCall(t, Len(segments) + 1,
                                                     r.out, svc, engine_ok)
                          IN  /\ tcalls' = Append(tcalls, call)
                              /\ outs' = IF forwarded(call)
                                         THEN [outs EXCEPT
                                                 ![t] = Append(outs[t], r.raw)]
                                         ELSE outs
                   ELSE UNCHANGED <<tcalls, outs>>
                /\ UNCHANGED poisoned
    /\ task_unchanged
    /\ CanLock({"processor", "transcription"})
    /\ locks' = task_guards({"processor", "transcription"}, TaskId(t))
    /\ UNCHANGED cmds

\* orchestrator.rs:127-136: recv returns None (the channel is empty and
\* every sender is gone)
TaskClosed(t) ==
    /\ tasks[t].pc = "recv"
    /\ Len(chans[tasks[t].rx].q) = 0
    /\ ~HasSender(tasks[t].rx)
    /\ IF budget_exceeded(tasks[t].failures + 1)
       THEN /\ tasks' = [tasks EXCEPT ![t].pc = "done",
                                      ![t].failures = tasks[t].failures + 1]
            /\ chans' = DropReceiver(tasks[t].rx)
       ELSE /\ tasks' = [tasks EXCEPT ![t].pc = "sleep",
                                      ![t].failures = tasks[t].failures + 1]
            /\ UNCHANGED chans
    /\ UNCHANGED <<segments, tcalls, outs, buffer, poisoned>>
    /\ task_unchanged
    /\ UNCHANGED locks
    /\ UNCHANGED cmds

\* orchestrator.rs:135: the backoff sleep ends
TaskWake(t) ==
    /\ tasks[t].pc = "sleep"
    /\ tasks' = [tasks EXCEPT ![t].pc = "check"]
    /\ UNCHANGED <<segments, tcalls, chans, outs, buffer, poisoned>>
    /\ task_unchanged
    /\ UNCHANGED locks
    /\ UNCHANGED cmds

----------------------------------------------------------------------------
(* The application *)

InitCommon ==
    /\ cmds = <<>>
    /\ locks = AllFree
    /\ is_active = FALSE
    /\ stop_signal = FALSE
    /\ recording_state = "Inactive"
    /\ audio_sender = None
    /\ recording_thread = None
    /\ workers = <<>>
    /\ chans = <<>>
    /\ tasks = <<>>
    /\ outs = <<>>
    /\ buffer = <<>>
    /\ poisoned = FALSE
    /\ op = "idle"
    /\ ret = "none"
    /\ rec_ret = "none"
    /\ ncalls = 0
    /\ nchunks = 0
    /\ nsamples = 0
    /\ last = NoCall
    /\ segments = <<>>
    /\ tcalls = <<>>

\* the application before main has initialised the engine
AppBoot == [phase |-> "boot", engine |-> "none"]

\* the application once tauri runs: the engine is initialised
AppRunning == [phase |-> "running", engine |-> "ready"]

AppExited == [phase |-> "exited", engine |-> "none"]

Limits(calls, chunks) == [calls |-> calls, chunks |-> chunks]

Init ==
    /\ InitCommon
    /\ cfg = AppProcessorConfig
    /\ svc = AppTranscriptionConfig
    /\ app = AppBoot
    /\ lim = Limits(MaxCalls, MaxChunks)

Boot_ignore_error ==
    /\ app.phase = "boot"
    /\ \E ok \in BOOLEAN :
          app' = IF ok THEN AppRunning ELSE [AppBoot EXCEPT !.phase = "running"]
    /\ UNCHANGED <<orch_vars, rec_vars, chans, tasks, outs, proc_vars, op, ret,
                   rec_ret, ncalls, nchunks, nsamples, segments, tcalls, svc,
                   lim>>
    /\ UNCHANGED locks
    /\ UNCHANGED cmds

\* main.rs:112-133: TranscriptionService::initialize (whisper::init); on an
\* error the process exits, otherwise the command handlers are registered
\* and the application runs
Boot ==
    /\ app.phase = "boot"
    /\ \E ok \in BOOLEAN :
          app' = IF ok THEN AppRunning ELSE AppExited
    /\ UNCHANGED <<orch_vars, rec_vars, chans, tasks, outs, proc_vars, op, ret,
                   rec_ret, ncalls, nchunks, nsamples, segments, tcalls, svc,
                   lim>>
    /\ UNCHANGED locks
    /\ UNCHANGED cmds

Next ==
    \/ Boot
    \/ OrchStart /\ UNCHANGED cmds
    \/ OrchStartSession
    \/ OrchStop /\ UNCHANGED cmds
    \/ OrchStopRec
    \/ RecStopJoin
    \/ RecStopReset
    \/ \E w \in 1..Len(workers) : WorkerSetup(w)
    \/ \E w \in 1..Len(workers) : WorkerGetSender(w)
    \/ \E w \in 1..Len(workers) : WorkerBuild(w)
    \/ \E w \in 1..Len(workers) : WorkerExit(w)
    \/ \E w \in 1..Len(workers) : DataFnCheck(w)
    \/ \E w \in 1..Len(workers) : DataFnSend(w)
    \/ \E t \in 1..Len(tasks) : TaskCheck(t)
    \/ \E t \in 1..Len(tasks) : TaskChunk(t)
    \/ \E t \in 1..Len(tasks) : TaskClosed(t)
    \/ \E t \in 1..Len(tasks) : TaskWake(t)

Spec == Init /\ [][Next]_vars

\* the application with more calls and fewer blocks: sessions that follow one
\* another while the tasks of earlier sessions are still alive
InitRestart ==
    /\ InitCommon
    /\ cfg = AppProcessorConfig
    /\ svc = AppTranscriptionConfig
    /\ app = AppBoot
    /\ lim = Limits(RestartCalls, RestartChunks)

SpecRestart == InitRestart /\ [][Next]_vars

InitLive ==
    /\ InitCommon
    /\ cfg = AppProcessorConfig
    /\ svc = AppTranscriptionConfig
    /\ app = AppBoot
    /\ lim = Limits(LiveCalls, LiveChunks)

\* The threads and tasks of the application are scheduled fairly: a call in
\* progress continues, the worker takes its next step, a callback in
\* progress returns, a consumption task takes its next step (tokio runs a
\* ready task, a sleep ends). Commands need not arrive and the device need
\* not deliver blocks.
AppFairness ==
    /\ WF_vars(Boot)
    /\ WF_vars(OrchStartSession)
    /\ WF_vars(OrchStopRec)
    /\ WF_vars(RecStopJoin)
    /\ WF_vars(RecStopReset)
    /\ \A w \in 1..LiveCalls :
          /\ WF_vars(w <= Len(workers) /\ WorkerSetup(w))
          /\ WF_vars(w <= Len(workers) /\ WorkerGetSender(w))
          /\ WF_vars(w <= Len(workers) /\ WorkerBuild(w))
          /\ WF_vars(w <= Len(workers) /\ WorkerExit(w))
          /\ WF_vars(w <= Len(workers) /\ DataFnSend(w))
    /\ \A t \in 1..LiveCalls :
          /\ WF_vars(t <= Len(tasks) /\ TaskCheck(t))
          /\ WF_vars(t <= Len(tasks) /\ TaskChunk(t))
          /\ WF_vars(t <= Len(tasks) /\ TaskClosed(t))
          /\ WF_vars(t <= Len(tasks) /\ TaskWake(t))

FairSpecApp == InitLive /\ [][Next]_vars /\ AppFairness

----------------------------------------------------------------------------
(* The application driven by the commands of the GUI (main.rs:27-54): a      *)
(* command spawns a handler on the async runtime; the handler locks the      *)
(* Mutex<Orchestrator> and calls start or stop                               *)

Command(c) == [cmd |-> c, state |-> "spawned"]

InitBridge ==
    /\ InitCommon
    /\ cfg = AppProcessorConfig
    /\ svc = AppTranscriptionConfig
    /\ app = AppBoot
    /\ lim = Limits(BridgeCmds, BridgeChunks)

\* main.rs:28-42  the start_recording command: spawn the handler and return
CommandStart ==
    /\ app.phase = "running"
    /\ Len(cmds) < lim.calls
    /\ cmds' = Append(cmds, Command("start"))
    /\ UNCHANGED <<hist_vars, locks, orch_vars, rec_vars, chans, tasks, outs,
                   proc_vars, op, ret, rec_ret, ncalls, nchunks, nsamples>>

\* main.rs:44-54  the stop_recording command: spawn the handler and return
CommandStop ==
    /\ app.phase = "running"
    /\ Len(cmds) < lim.calls
    /\ cmds' = Append(cmds, Command("stop"))
    /\ UNCHANGED <<hist_vars, locks, orch_vars, rec_vars, chans, tasks, outs,
                   proc_vars, op, ret, rec_ret, ncalls, nchunks, nsamples>>

\* main.rs:34-37  a spawned start handler gets the Mutex<Orchestrator> (no
\* call is in progress) and calls start
HandlerStart(i) ==
    /\ cmds[i] = Command("start")
    /\ cmds' = [cmds EXCEPT ![i].state = "run"]
    /\ OrchStart

\* main.rs:50-53  a spawned stop handler gets the Mutex<Orchestrator> and
\* calls stop
HandlerStop(i) ==
    /\ cmds[i] = Command("stop")
    /\ cmds' = [cmds EXCEPT ![i].state = "run"]
    /\ OrchStop

NextBridge ==
    \/ Boot
    \/ CommandStart
    \/ CommandStop
    \/ \E i \in 1..Len(cmds) : HandlerStart(i)
    \/ \E i \in 1..Len(cmds) : HandlerStop(i)
    \/ OrchStartSession
    \/ OrchStopRec
    \/ RecStopJoin
    \/ RecStopReset
    \/ \E w \in 1..Len(workers) : WorkerSetup(w)
    \/ \E w \in 1..Len(workers) : WorkerGetSender(w)
    \/ \E w \in 1..Len(workers) : WorkerBuild(w)
    \/ \E w \in 1..Len(workers) : WorkerExit(w)
    \/ \E w \in 1..Len(workers) : DataFnCheck(w)
    \/ \E w \in 1..Len(workers) : DataFnSend(w)
    \/ \E t \in 1..Len(tasks) : TaskCheck(t)
    \/ \E t \in 1..Len(tasks) : TaskChunk(t)
    \/ \E t \in 1..Len(tasks) : TaskClosed(t)
    \/ \E t \in 1..Len(tasks) : TaskWake(t)

SpecBridge == InitBridge /\ [][NextBridge]_vars

----------------------------------------------------------------------------
(* The Recorder driven through its public API *)

\* a caller's start_recording(sender) with the sender of a channel of its own
RecStartCall ==
    /\ op = "idle"
    /\ ncalls < lim.calls
    /\ ncalls' = ncalls + 1
    /\ chans' = Append(chans, NewChannel)
    /\ start_recording(Len(chans) + 1)
    /\ UNCHANGED <<hist_vars, orch_vars, tasks, outs, proc_vars, op, ret, nchunks,
                   nsamples>>
    /\ CanLock({"state"})
    /\ locks' = rec_guards({"state"}, Caller)
    /\ UNCHANGED cmds

\* a caller's stop_recording()
RecStopCall ==
    /\ op = "idle"
    /\ ncalls < lim.calls
    /\ ncalls' = ncalls + 1
    /\ stop_request
    /\ UNCHANGED <<hist_vars, orch_vars, chans, tasks, outs, proc_vars, ret, nchunks,
                   nsamples>>
    /\ CanLock({"state"})
    /\ locks' = rec_guards({"state"}, Caller)
    /\ UNCHANGED cmds

NextRec ==
    \/ RecStartCall
    \/ RecStopCall
    \/ RecStopJoin
    \/ RecStopReset
    \/ \E w \in 1..Len(workers) : WorkerSetup(w)
    \/ \E w \in 1..Len(workers) : WorkerGetSender(w)
    \/ \E w \in 1..Len(workers) : WorkerBuild(w)
    \/ \E w \in 1..Len(workers) : WorkerExit(w)
    \/ \E w \in 1..Len(workers) : DataFnCheck(w)
    \/ \E w \in 1..Len(workers) : DataFnSend(w)

\* a Recorder of its own, in a running process
InitRec ==
    /\ InitCommon
    /\ cfg = AppProcessorConfig
    /\ svc = AppTranscriptionConfig
    /\ app = AppRunning
    /\ lim = Limits(MaxCalls, MaxChunks)

SpecRec == InitRec /\ [][NextRec]_vars

----------------------------------------------------------------------------
(* AudioProcessor.process on its own *)

ProcessorConfigs ==
    {ProcessorConfig(min, max, sr, 1, sc, 1) :
        min \in 0..MaxMin, max \in 0..MaxMaxBuf, sr \in 1..3, sc \in 1..2}

InitProc ==
    /\ InitCommon
    /\ cfg \in ProcessorConfigs
    /\ svc = AppTranscriptionConfig
    /\ app = AppRunning
    /\ lim = Limits(MaxCalls, MaxChunks)

\* one call of process with a chunk of n fresh samples; a call on a poisoned
\* buffer mutex panics at lock().unwrap()
ProcessCall ==
    /\ ncalls < MaxProcCalls
    /\ ~poisoned
    /\ \E n \in 0..MaxProcChunk :
          LET chunk == FreshChunk(nsamples, n)
              r == process(buffer, chunk, cfg)
          IN  /\ buffer' = r.buffer
              /\ poisoned' = r.panicked
              /\ last' = CallRecord(buffer, chunk, r)
              /\ segments' = IF r.emitted
                             THEN Append(segments, Segment(0, r.raw))
                             ELSE segments
              /\ nsamples' = nsamples + n
    /\ ncalls' = ncalls + 1
    /\ UNCHANGED <<tcalls, svc, env_vars, orch_vars, rec_vars, chans, tasks,
                   outs, cfg, op, ret, rec_ret, nchunks>>
    /\ UNCHANGED locks
    /\ UNCHANGED cmds

NextProc == ProcessCall

SpecProc == InitProc /\ [][NextProc]_vars

----------------------------------------------------------------------------
(* TranscriptionService.transcribe on its own; one element is one sample *)

\* min_duration_seconds 0.5, 1.0 or 1.5 and a sample_rate of 16000 or 11025
TranscriptionConfigs ==
    {TranscriptionConfig(num, 2, rate, 1) :
        num \in 1..3, rate \in {16000, 11025}}

\* the lengths of the inputs: around the thresholds of the configurations
\* drawn and of whisper.rs:81
SvcLengths ==
    {0, 5512, 5513, 8000, 11025, 15999, 16000, 16537, 16538, 24000}

InitSvc ==
    /\ InitCommon
    /\ cfg = AppProcessorConfig
    /\ svc \in TranscriptionConfigs
    /\ app = AppRunning
    /\ lim = Limits(MaxCalls, MaxChunks)

\* one call of transcribe with n samples of value v
TranscribeDirect ==
    /\ ncalls < MaxSvcCalls
    /\ \E n \in SvcLengths, v \in 0..1, engine_ok \in BOOLEAN :
          LET samples == [i \in 1..n |-> v]
          IN  tcalls' = Append(tcalls, TranscribeCall(0, 0, samples, svc,
                                                     engine_ok))
    /\ ncalls' = ncalls + 1
    /\ UNCHANGED <<orch_vars, rec_vars, chans, tasks, outs, proc_vars, op, ret,
                   rec_ret, nchunks, nsamples, segments, svc, env_vars>>
    /\ UNCHANGED locks
    /\ UNCHANGED cmds

NextSvc == TranscribeDirect

SpecSvc == InitSvc /\ [][NextSvc]_vars

----------------------------------------------------------------------------
(* The body of the consumption loop on its own: chunks of 4410 samples go   *)
(* through process and each segment through transcribe                      *)

\* the samples one element stands for in SpecPipe
PipeUnit == 4410 \div PipeChunkLen

\* min_samples_for_processing 16000 (ProcessorConfig::default) or 49000
\* (config.rs min_transcription_samples) samples, counted in elements; a
\* source of 44100 Hz or 16000 Hz, mono, and a target of 16000 Hz, mono
PipeProcessorConfigs ==
    {ProcessorConfig(min \div PipeUnit, (min \div PipeUnit) * BufferFactor,
                     sr, 16000, 1, 1) :
        min \in {16000, 49000}, sr \in {44100, 16000}}

InitPipe ==
    /\ InitCommon
    /\ cfg \in PipeProcessorConfigs
    /\ svc = TranscriptionConfig(1, 1, 16000, PipeUnit)
    /\ app = AppRunning
    /\ lim = Limits(MaxCalls, MaxChunks)

\* orchestrator.rs:102-126 on the next chunk
ConsumeChunk ==
    /\ nchunks < PipeChunks
    /\ ~poisoned
    /\ LET chunk == FreshChunk(nsamples, PipeChunkLen)
           r == process(buffer, chunk, cfg)
       IN  /\ buffer' = r.buffer
           /\ poisoned' = r.panicked
           /\ segments' = IF r.emitted
                          THEN Append(segments, Segment(0, r.raw))
                          ELSE segments
           /\ IF r.emitted
              THEN \E engine_ok \in BOOLEAN :
                     tcalls' = Append(tcalls,
                                      TranscribeCall(0, Len(segments) + 1,
                                                     r.out, svc, engine_ok))
              ELSE UNCHANGED tcalls
    /\ nchunks' = nchunks + 1
    /\ nsamples' = nsamples + PipeChunkLen
    /\ UNCHANGED <<orch_vars, rec_vars, chans, tasks, outs, cfg, last, op, ret,
                   rec_ret, ncalls, svc, env_vars>>
    /\ UNCHANGED locks
    /\ UNCHANGED cmds

NextPipe == ConsumeChunk

SpecPipe == InitPipe /\ [][NextPipe]_vars

\* The threads of the recorder are scheduled fairly: the worker takes its next
\* step, a callback in progress returns, and stop_recording continues once
\* the join has returned. The device need not deliver blocks and the caller
\* need not call.
RecFairness ==
    /\ \A w \in 1..MaxCalls :
          /\ WF_vars(w <= Len(workers) /\ WorkerSetup(w))
          /\ WF_vars(w <= Len(workers) /\ WorkerGetSender(w))
          /\ WF_vars(w <= Len(workers) /\ WorkerBuild(w))
          /\ WF_vars(w <= Len(workers) /\ WorkerExit(w))
          /\ WF_vars(w <= Len(workers) /\ DataFnSend(w))
    /\ WF_vars(RecStopJoin)
    /\ WF_vars(RecStopReset)

FairSpecRec == SpecRec /\ RecFairness

----------------------------------------------------------------------------
(* Properties *)

StartCalled == ncalls' # ncalls /\ ret' \in {"start", "start_noop"}
StopCalled == ncalls' # ncalls /\ ret' \in {"stop", "stop_noop"}
RecStartCalled == ncalls' # ncalls /\ rec_ret' \in {"started", "already_active"}
RecStopCalled == ncalls' # ncalls /\ rec_ret' \in {"stopping", "not_active"}
LiveWorkers == {w \in 1..Len(workers) : workers[w].pc # "done"}

\* C1: a start called while the orchestrator is Running returns at once and
\* changes nothing: no new channel, no recorder start, no new consumption
\* task, is_active and stop_signal as they were.
C1_StartWhileRunningIsNoop ==
    [][(StartCalled /\ is_active) =>
          /\ op' = "idle"
          /\ UNCHANGED <<is_active, stop_signal, rec_vars, chans, tasks,
                         outs, buffer, rec_ret>>]_vars

C1_Witness == ret = "start_noop" /\ is_active /\ Len(tasks) = 1

\* C2: a stop called while the orchestrator is Idle returns at once, leaves
\* is_active, stop_signal and the recorder unchanged and does not reach
\* Recorder.stop_recording.
C2_StopWhileIdleIsNoop ==
    [][(StopCalled /\ ~is_active) =>
          /\ op' = "idle"
          /\ UNCHANGED <<is_active, stop_signal, rec_vars, rec_ret>>]_vars

C2_Witness == ret = "stop_noop" /\ rec_ret = "stopped" /\ Len(tasks) >= 1

\* C3: while a stop of a Running orchestrator is inside the recorder the stop
\* signal is set and the orchestrator is marked Idle; once that stop has
\* returned, is_active = false, stop_signal = true, the recorder is Inactive
\* with no stored sender and no recorder worker is alive.
C3_StopWhileRunning ==
    /\ op \in {"stop_rec", "join", "reset"} => stop_signal /\ ~is_active
    /\ (ret = "stop" /\ op = "idle") =>
          /\ ~is_active
          /\ stop_signal
          /\ recording_state = "Inactive"
          /\ audio_sender = None
          /\ recording_thread = None
          /\ LiveWorkers = {}

C3_Witness ==
    /\ ret = "stop"
    /\ op = "idle"
    /\ \E w \in 1..Len(workers) : workers[w].pc = "done" /\ ~workers[w].failed

\* C4: every start that is not a no-op, also one after earlier start/stop
\* cycles, returns with the stop signal cleared, is_active set, a new empty
\* channel, the recorder Active holding the new channel's sender with a new
\* worker, and a new consumption task reading the new channel.
C4_Restartable ==
    [][(op = "start_session" /\ op' = "idle") =>
          /\ is_active' /\ ~stop_signal'
          /\ Len(chans') = Len(chans) + 1
          /\ chans'[Len(chans')] = NewChannel
          /\ recording_state' = "Active"
          /\ audio_sender' = Len(chans')
          /\ Len(workers') = Len(workers) + 1
          /\ recording_thread' = Len(workers')
          /\ workers'[Len(workers')].pc = "setup"
          /\ Len(tasks') = Len(tasks) + 1
          /\ tasks'[Len(tasks')] = NewTask(Len(chans'))]_vars

\* the second session has produced a text from its own chunks
C4_Witness ==
    /\ Len(outs) >= 2
    /\ Len(outs[2]) >= 1
    /\ is_active /\ op = "idle"

\* C5: a start_recording issued after the current worker failed device setup
\* is not rejected as already active.
C5_RetryAfterSetupFailure ==
    [][(RecStartCalled /\ recording_thread # None
          /\ workers[recording_thread].failed) =>
          rec_ret' = "started"]_vars

\* C6: a start_recording called while the state is Active changes nothing:
\* no second worker, the state, the stored sender and the worker handle stay.
C6_SecondStartIsNoop ==
    [][(RecStartCalled /\ recording_state = "Active") =>
          /\ rec_ret' = "already_active"
          /\ UNCHANGED rec_vars]_vars

C6_Witness ==
    /\ rec_ret = "already_active"
    /\ Len(workers) = 1
    /\ workers[1].pc = "run"

C7_LiveWorkerNotInactive == LiveWorkers # {} => recording_state # "Inactive"

C7_StopNoopUnlessActive ==
    (RecStopCalled /\ recording_state # "Active") =>
        /\ rec_ret' = "not_active"
        /\ op' = "idle"
        /\ UNCHANGED rec_vars

C7_StopSetsStopRequested ==
    (RecStopCalled /\ recording_state = "Active") =>
        /\ recording_state' = "StopRequested"
        /\ op' = "join"

\* C7: stop_recording is a no-op unless the state is Active; when Active it
\* sets StopRequested and the state becomes Inactive only once no worker is
\* alive: a live worker implies the state is not Inactive.
C7_StopJoinsBeforeInactive ==
    /\ []C7_LiveWorkerNotInactive
    /\ [][C7_StopNoopUnlessActive /\ C7_StopSetsStopRequested]_vars

C7_Witness ==
    /\ op = "join"
    /\ recording_state = "StopRequested"
    /\ \E w \in 1..Len(workers) : workers[w].pc = "run"

\* C8: under fair scheduling of the recorder's threads every stop_recording
\* that has set StopRequested returns, wherever the worker is.
C8_StopReturns == (op = "join") ~> (op = "idle")

C8_Witness ==
    /\ op = "join"
    /\ \E w \in 1..Len(workers) : workers[w].pc = "setup"

\* C9: a call of process that returns yields a segment iff the buffer with
\* the chunk appended has at least min_samples_for_processing samples;
\* otherwise it yields nothing and the buffer has grown by the chunk.
C9_SegmentIffEnough ==
    (last.called /\ ~last.panicked) =>
        /\ last.emitted <=>
              Len(last.before) + Len(last.chunk)
                  >= cfg.min_samples_for_processing
        /\ ~last.emitted =>
              Len(buffer) = Len(last.before) + Len(last.chunk)

C9_Witness ==
    /\ last.called /\ last.emitted
    /\ Len(last.before) > 0
    /\ Len(last.before) + Len(last.chunk) = cfg.min_samples_for_processing

\* C10: when process returns a segment, the accumulated samples are the
\* buffer's samples followed by the chunk's, and the buffer is left empty.
C10_SegmentIsWholeBuffer ==
    (last.called /\ last.emitted) =>
        /\ last.raw = last.before \o last.chunk
        /\ Len(buffer) = 0

C10_Witness ==
    /\ last.called /\ last.emitted
    /\ Len(last.before) > 0
    /\ Len(last.chunk) > 0

RECURSIVE Concat(_)
\* the segments of a sequence of entries of segments, joined in order
Concat(segs) ==
    IF segs = <<>> THEN <<>> ELSE Head(segs).raw \o Concat(Tail(segs))

\* the samples of the calls of process that have returned: every sample
\* handed out so far, less the chunk of a call that panicked
ReturnedInput ==
    FreshChunk(0, IF poisoned THEN nsamples - Len(last.chunk) ELSE nsamples)

\* C11: whatever chunks were passed to process, the segments returned so
\* far (before resampling), joined in order and followed by the buffer, are
\* exactly the samples of the chunks of the calls that returned, in order:
\* nothing lost, duplicated or reordered.
C11_SegmentsExhaustive == Concat(segments) \o buffer = ReturnedInput

C11_Witness ==
    /\ Len(segments) >= 2
    /\ Len(buffer) > 0
    /\ ~poisoned

\* C12: with max_buffer_size >= min_samples_for_processing the buffer is
\* never longer than max_buffer_size after a call of process, whatever the
\* lengths of the chunks, a chunk longer than max_buffer_size included.
C12_BufferBounded ==
    cfg.max_buffer_size >= cfg.min_samples_for_processing =>
        Len(buffer) <= cfg.max_buffer_size

C12_Witness ==
    /\ last.called /\ ~last.panicked
    /\ cfg.min_samples_for_processing > 0
    /\ cfg.max_buffer_size >= cfg.min_samples_for_processing
    /\ Len(last.chunk) > cfg.max_buffer_size
    /\ Len(last.before) > 0

\* the most recent n samples of b
MostRecent(b, n) == SubSeq(b, Len(b) - n + 1, Len(b))

\* C13 (as claimed): when appending the chunk makes the buffer longer than
\* max_buffer_size, process leaves in the buffer the most recent
\* min_samples_for_processing samples of the buffer with the chunk appended.
C13_TrimAfterAppend ==
    ( /\ last.called /\ ~last.panicked
      /\ cfg.max_buffer_size >= cfg.min_samples_for_processing
      /\ Len(last.before) + Len(last.chunk) > cfg.max_buffer_size )
    => buffer = MostRecent(last.before \o last.chunk,
                           cfg.min_samples_for_processing)

\* C14: a call of process resamples only when it returns a segment, and
\* then exactly when the source and target rates or channel counts differ;
\* with identical rates and channel counts the segment returned is the
\* buffer followed by the chunk, unchanged.
C14_ResampleOnlyWhenDifferent ==
    (last.called /\ ~last.panicked) =>
        /\ last.resampled => last.emitted
        /\ last.emitted =>
              (last.resampled <=>
                  \/ cfg.source_sample_rate # cfg.target_sample_rate
                  \/ cfg.source_channels # cfg.target_channels)
        /\ last.emitted /\ last.resampled =>
              last.out = resample(last.before \o last.chunk, cfg)
        /\ ( /\ last.emitted
             /\ cfg.source_sample_rate = cfg.target_sample_rate
             /\ cfg.source_channels = cfg.target_channels )
           => last.out = last.before \o last.chunk

C14_Witness ==
    /\ last.called /\ last.emitted /\ ~last.resampled
    /\ cfg.source_sample_rate = cfg.target_sample_rate
    /\ cfg.source_channels = cfg.target_channels
    /\ Len(last.before) > 0
    /\ Len(last.chunk) > 0

\* the last call of transcribe
LastCall == tcalls[Len(tcalls)]

EngineRuns == {i \in 1..Len(tcalls) : tcalls[i].engine_run}

\* the configuration of the scenario: min_samples_for_processing 16000,
\* 44100 Hz mono to 16000 Hz mono, min_duration_seconds 1.0
C16_Scenario ==
    /\ cfg.min_samples_for_processing * svc.unit = 16000
    /\ cfg.source_sample_rate = 44100
    /\ cfg.target_sample_rate = 16000
    /\ svc.min_duration_num = svc.min_duration_den

\* C16 (as claimed): once the 20 chunks of 4410 samples of the scenario have
\* gone through process and transcribe, exactly one segment has been
\* resampled, has passed the duration gate and has reached the engine.
C16_OneSegmentTranscribed ==
    (C16_Scenario /\ nchunks = PipeChunks) => Cardinality(EngineRuns) = 1

\* no channel holds more chunks than its capacity
C17_QueueBounded ==
    \A c \in 1..Len(chans) : Len(chans[c].q) <= ChannelCap

\* a callback at its try_send can always complete it, and a task at recv
\* with a chunk queued can always take it
C17_NoBlocking ==
    /\ \A w \in 1..Len(workers) :
          workers[w].cb = "send" => ENABLED DataFnSend(w)
    /\ \A t \in 1..Len(tasks) :
          (tasks[t].pc = "recv" /\ Len(chans[tasks[t].rx].q) > 0)
              => ENABLED TaskChunk(t)

\* while the consumption loop holds its Receiver, the chunks enqueued so far
\* are those it has processed followed by those still queued
C17_EnqueuedAreProcessed ==
    \A t \in 1..Len(tasks) :
        chans[tasks[t].rx].rx =>
            chans[tasks[t].rx].sent = tasks[t].seen \o chans[tasks[t].rx].q

\* a try_send on a full channel returns at once and changes no channel
C17_FullSendDrops ==
    \A w \in 1..Len(workers) :
        ( /\ workers[w].cb = "send"
          /\ workers'[w].cb = "idle"
          /\ Len(chans[workers[w].sender].q) >= ChannelCap )
        => chans' = chans

\* C17: a channel never holds more than its capacity; a chunk offered to a
\* full channel is dropped and leaves the queues as they are; the callback
\* is never blocked at its try_send; as long as the consumption loop holds
\* its Receiver every enqueued chunk has been processed or is still queued,
\* and the loop can always take a queued chunk.
C17_Backpressure ==
    /\ [](C17_QueueBounded /\ C17_NoBlocking /\ C17_EnqueuedAreProcessed)
    /\ [][C17_FullSendDrops]_vars

\* the callback has offered a chunk to the full channel of the first
\* session, whose loop has processed a chunk and still runs
C17_Witness ==
    /\ Len(chans) = 1
    /\ chans[1].rx
    /\ Len(chans[1].q) = ChannelCap
    /\ Len(tasks[1].seen) > 0
    /\ nsamples > ChunkLen * Len(chans[1].sent)

IsPrefix(a, b) == Len(a) <= Len(b) /\ a = SubSeq(b, 1, Len(a))

\* the positions in segments of the segments returned to task t, in order
TaskSegments(t) ==
    SelectSeq([i \in 1..Len(segments) |-> i],
              LAMBDA i : segments[i].task = t)

\* the calls of transcribe made by task t, in order
TaskCalls(t) == SelectSeq(tcalls, LAMBDA e : e.task = t)

\* the calls of transcribe made by task t that returned a text, in order
TaskTexts(t) == SelectSeq(tcalls, LAMBDA e : e.task = t /\ e.text)

\* C18: in every session the chunks passed to process are the first chunks
\* enqueued on the session's channel, in that order; the segments passed to
\* transcribe are the segments process returned to the session, in that
\* order; and the texts on the session's output channel are those of the
\* calls of transcribe that returned one, in that order.
C18_Ordering ==
    \A t \in 1..Len(tasks) :
        /\ IsPrefix(tasks[t].seen, chans[tasks[t].rx].sent)
        /\ [i \in 1..Len(TaskCalls(t)) |-> TaskCalls(t)[i].seg]
              = TaskSegments(t)
        /\ outs[t] = [i \in 1..Len(TaskTexts(t)) |->
                         segments[TaskTexts(t)[i].seg].raw]

C18_Witness ==
    \E t \in 1..Len(tasks) :
        /\ Len(outs[t]) >= 2
        /\ Len(TaskSegments(t)) >= 2

\* stop has been called for the session of task t
StopCalledFor(t) ==
    /\ t <= Len(tasks)
    /\ \/ t < Len(tasks)
       \/ op = "start_session"
       \/ ~is_active

\* C21: under fair scheduling, once stop has been called for a session its
\* consumption task terminates, wherever the task was (waiting on its empty
\* channel included) and whether or not another start follows.
C21_TaskTerminates ==
    \A t \in 1..LiveCalls :
        StopCalledFor(t) ~> (t <= Len(tasks) /\ tasks[t].pc = "done")

\* the task of a stopped session waits on its empty channel while a later
\* session runs
C21_Witness ==
    /\ Len(tasks) = 2
    /\ StopCalledFor(1)
    /\ is_active /\ op = "idle"
    /\ tasks[1].pc = "recv"
    /\ Len(chans[tasks[1].rx].q) = 0
    /\ ~stop_signal

\* a step in which recv returned None to task t
RecvNone(t) ==
    /\ t <= Len(tasks)
    /\ tasks'[t].failures # tasks[t].failures

\* task t has terminated because its failure budget was used up
BudgetDone(t) == tasks[t].pc = "done" /\ tasks[t].failures > MaxFailures

\* each time recv returns None the counter is incremented; the task then
\* sleeps and retries while the counter is at most 5 and terminates when it
\* exceeds 5
C22_CountAndRetry ==
    \A t \in 1..RestartCalls :
        RecvNone(t) =>
            /\ tasks[t].pc = "recv"
            /\ Len(chans[tasks[t].rx].q) = 0
            /\ tasks'[t].failures = tasks[t].failures + 1
            /\ tasks'[t].pc = IF tasks'[t].failures <= 5
                              THEN "sleep" ELSE "done"

\* the counter of a sleeping task is between 1 and 5, and a counter above 5
\* is 6, of a task that has terminated
C22_CounterRange ==
    \A t \in 1..Len(tasks) :
        /\ tasks[t].pc = "sleep" =>
              tasks[t].failures >= 1 /\ tasks[t].failures <= 5
        /\ tasks[t].failures > 5 =>
              tasks[t].failures = 6 /\ tasks[t].pc = "done"

\* once a task has terminated through its budget, stop and start still do
\* their work: a stop of the running orchestrator sets the signal, clears
\* is_active and goes on to stop the recorder; a start of the idle
\* orchestrator sets is_active, clears the signal and goes on to create the
\* session; the session created has a channel with a live receiver, a
\* recorder in state Active and a task of its own
C22_StillUsable ==
    (\E t \in 1..Len(tasks) : BudgetDone(t)) =>
        /\ (StopCalled /\ is_active) =>
              stop_signal' /\ ~is_active' /\ op' = "stop_rec"
        /\ (StartCalled /\ ~is_active) =>
              is_active' /\ ~stop_signal' /\ op' = "start_session"
        /\ (op = "start_session" /\ op' = "idle") =>
              /\ Len(tasks') = Len(tasks) + 1
              /\ tasks'[Len(tasks')].pc = "check"
              /\ chans'[tasks'[Len(tasks')].rx].rx
              /\ recording_state' = "Active"
        /\ (op = "reset" /\ op' = "idle") =>
              recording_state' = "Inactive" /\ ~is_active

\* C22: the failure budget of the consumption task (count, back off and
\* retry up to 5, terminate at the 6th consecutive failure), and the
\* orchestrator remains stoppable and restartable after such a termination.
C22_FailureBudget ==
    /\ []C22_CounterRange
    /\ [][C22_CountAndRetry /\ C22_StillUsable]_vars

\* a task has terminated through its budget; after that a stop has completed
\* and a start has begun a session whose task has processed a chunk
C22_Witness ==
    /\ Len(tasks) = 3
    /\ BudgetDone(1)
    /\ is_active /\ op = "idle"
    /\ Len(tasks[3].seen) > 0

\* a step in which task t handled a received chunk
ChunkHandled(t) ==
    /\ t <= Len(tasks)
    /\ tasks'[t].seen # tasks[t].seen

\* C23: right after the loop has handled a received chunk, with or without a
\* segment, the failure counter of the task is 0.
C23_ReceiptResetsCounter ==
    [][\A t \in 1..Len(tasks) :
          ChunkHandled(t) => tasks'[t].failures = 0]_vars

\* a task has handled a chunk that gave no segment; another task counts
\* failures
C23_Witness ==
    /\ Len(tasks) = 2
    /\ tasks[1].failures > 0
    /\ Len(tasks[2].seen) > 0
    /\ TaskSegments(2) = <<>>
    /\ tasks[2].failures = 0

\* C24 (as claimed): a chunk is enqueued only while the RecordingState is
\* Active, so none is enqueued after stop has set StopRequested.
C24_NoEnqueueAfterStopRequest ==
    [][\A c \in 1..Len(chans) :
          chans'[c].sent # chans[c].sent => recording_state = "Active"]_vars

\* a step in which task t called transcribe and the engine ran and failed
EngineFailed(t) ==
    /\ Len(tcalls') = Len(tcalls) + 1
    /\ tcalls'[Len(tcalls')].task = t
    /\ tcalls'[Len(tcalls')].engine_run
    /\ ~tcalls'[Len(tcalls')].text

\* a step in which task t called transcribe and got a text
EngineSucceeded(t) ==
    /\ Len(tcalls') = Len(tcalls) + 1
    /\ tcalls'[Len(tcalls')].task = t
    /\ tcalls'[Len(tcalls')].text

\* C25: when the engine fails on a segment no text is forwarded for it, the
\* failure counter is not incremented and the loop goes on to its next
\* iteration; a segment the engine transcribes gives one text on the output
\* channel, whatever happened to earlier segments.
C25_EngineFailureRecoverable ==
    [][\A t \in 1..Len(tasks) :
          /\ EngineFailed(t) =>
                /\ outs' = outs
                /\ tasks'[t].failures <= tasks[t].failures
                /\ tasks'[t].pc = "check"
                /\ chans'[tasks[t].rx].rx
          /\ EngineSucceeded(t) =>
                Len(outs'[t]) = Len(outs[t]) + 1]_vars

\* a task whose first segment failed in the engine and whose second segment
\* gave a text
C25_Witness ==
    \E t \in 1..Len(tasks) :
        /\ Len(TaskCalls(t)) = 2
        /\ TaskCalls(t)[1].engine_run /\ ~TaskCalls(t)[1].text
        /\ TaskCalls(t)[2].text
        /\ Len(outs[t]) = 1

C27_EngineInitialisedBeforeUse ==
    /\ app.phase = "running" => engine_ready
    /\ app.phase # "running" =>
          ncalls = 0 /\ Len(tasks) = 0 /\ Len(tcalls) = 0 /\ op = "idle"
    /\ \A i \in 1..Len(tcalls) : tcalls[i].engine_ready

\* a session of the running application has called transcribe
C27_Witness ==
    /\ app.phase = "running"
    /\ Len(tcalls) > 0
    /\ tcalls[1].engine_ready

\* C28 (as claimed): a call of transcribe with at least min_duration_seconds
\* x sample_rate samples runs the engine; the configured threshold is the
\* only length gate.
C28_ConfiguredGateOnly ==
    ( /\ Len(tcalls) > 0
      /\ LastCall.count * svc.min_duration_den
            >= svc.min_duration_num * svc.sample_rate )
    => LastCall.engine_run

\* a step that changes the RecordingState is one of: start_recording from
\* Inactive to Active, the first part of stop_recording from Active to
\* StopRequested, the last part of stop_recording from StopRequested to
\* Inactive
C29_Transition ==
    recording_state' # recording_state =>
        \/ /\ recording_state = "Inactive"
           /\ recording_state' = "Active"
           /\ rec_ret' = "started"
        \/ /\ recording_state = "Active"
           /\ recording_state' = "StopRequested"
           /\ rec_ret' = "stopping" /\ op' = "join"
        \/ /\ recording_state = "StopRequested"
           /\ recording_state' = "Inactive"
           /\ op = "reset" /\ op' = "idle"

\* C29: the RecordingState changes only Inactive -> Active (start),
\* Active -> StopRequested (stop) and StopRequested -> Inactive (stop, after
\* the join); the worker and the callback never change it; StopRequested is
\* the state only while a stop_recording call is in progress.
C29_StateMachine ==
    /\ [](recording_state = "StopRequested" => op \in {"join", "reset"})
    /\ [][C29_Transition]_vars

\* a recording has gone through the whole cycle and a second one is active
C29_Witness ==
    /\ recording_state = "Active"
    /\ Len(workers) = 2
    /\ op = "idle"
    /\ ncalls = 3

\* C30: whenever no start or stop call is in progress, is_active holds
\* exactly when the RecordingState is Active.
C30_ActiveIffRecording ==
    op = "idle" => (is_active <=> recording_state = "Active")

\* the second session runs although its worker has failed to set up the
\* device and has terminated
C30_Witness ==
    /\ op = "idle"
    /\ is_active
    /\ recording_state = "Active"
    /\ Len(workers) = 2
    /\ workers[2].failed /\ workers[2].pc = "done"

\* the samples sent on channel c, i.e. captured during session c
Captured(c) ==
    {chans[c].sent[j][k] :
        j \in 1..Len(chans[c].sent), k \in 1..ChunkLen}

\* the samples of the i-th segment
SegmentSamples(i) ==
    {segments[i].raw[k] : k \in 1..Len(segments[i].raw)}

\* C31 (as claimed): every segment handed to transcribe consists of samples
\* captured during one session, the session of the task that transcribes it.
C31_SessionsIsolated ==
    \A i \in 1..Len(segments) :
        SegmentSamples(i) \subseteq Captured(tasks[segments[i].task].rx)

\* session t is Running: start has returned and stop has not been called
Running(t) == t = Len(tasks) /\ is_active /\ op = "idle"

\* C32: while a session is Running its channel has a live sender, the one
\* stored in the Recorder state; its task has seen no 'channel closed', its
\* failure counter is 0 and it has not terminated through the budget.
C32_SenderWhileRunning ==
    \A t \in 1..Len(tasks) :
        Running(t) =>
            /\ audio_sender = tasks[t].rx
            /\ HasSender(tasks[t].rx)
            /\ ~ENABLED TaskClosed(t)
            /\ tasks[t].failures = 0
            /\ tasks[t].pc # "sleep"

\* a Running session whose worker failed to set up the device; its task
\* waits on the empty channel
C32_Witness ==
    /\ Len(tasks) = 1
    /\ Running(1)
    /\ workers[1].failed /\ workers[1].pc = "done"
    /\ tasks[1].pc = "recv"
    /\ Len(chans[tasks[1].rx].q) = 0

\* a step that spawns a worker
WorkerSpawned == Len(workers') > Len(workers)

\* C33: at most one recorder worker is alive at any time, and a worker is
\* spawned only when no handle of an earlier worker is stored and no earlier
\* worker is alive.
C33_OneWorker ==
    /\ [](Cardinality(LiveWorkers) <= 1)
    /\ [][WorkerSpawned =>
            recording_thread = None /\ LiveWorkers = {}]_vars

\* a second worker runs after the first one has been joined
C33_Witness ==
    /\ Len(workers) = 2
    /\ workers[1].pc = "done"
    /\ workers[2].pc = "run"

\* C34: between calls of process the buffer is shorter than
\* min_samples_for_processing (empty when that is 0); hence, with
\* max_buffer_size >= min_samples_for_processing, no call of process takes
\* the 'buffer too large' branch.
C34_BufferBelowMin ==
    ~poisoned =>
        /\ cfg.min_samples_for_processing > 0 =>
              Len(buffer) < cfg.min_samples_for_processing
        /\ cfg.min_samples_for_processing = 0 => Len(buffer) = 0
        /\ ( /\ last.called
              /\ cfg.max_buffer_size >= cfg.min_samples_for_processing )
            => ~last.trimmed /\ ~last.panicked

\* a call with a chunk longer than max_buffer_size on a non-empty buffer
C34_Witness ==
    /\ last.called
    /\ cfg.min_samples_for_processing > 0
    /\ cfg.max_buffer_size >= cfg.min_samples_for_processing
    /\ Len(last.before) > 0
    /\ Len(last.before) + Len(last.chunk) > cfg.max_buffer_size
    /\ ~last.trimmed

\* every handler spawned so far has run to its end
AllHandlersRun ==
    /\ \A i \in 1..Len(cmds) : cmds[i].state = "run"
    /\ op = "idle"

\* C35 (as claimed): after a start command followed by a stop command, once
\* both handlers have run, the orchestrator is Idle.
C35_CommandsInOrder ==
    ( /\ Len(cmds) = 2
      /\ cmds[1].cmd = "start" /\ cmds[2].cmd = "stop"
      /\ AllHandlersRun )
    => ~is_active

\* C19 (as claimed): no consumption task processes more than one chunk after
\* the stop of its session has returned.
C19_AtMostOneLateChunk ==
    \A t \in 1..Len(tasks) : tasks[t].late <= 1

\* task t is about to call process: it is at recv and a chunk is queued
CanProcess(t) == tasks[t].pc = "recv" /\ Len(chans[tasks[t].rx].q) > 0

\* C20 (as claimed): at no moment are two consumption tasks able to call
\* process.
C20_SingleConsumer ==
    Cardinality({t \in 1..Len(tasks) : CanProcess(t)}) <= 1

====
